---- MODULE Spec2Model ----
(***************************************************************************)
(* Model of the native crash handler of AndroidCrashPlugins:               *)
(*   crashreporter/src/main/cpp/native_crash_handler.cpp          (basic)  *)
(*   crashreporter/src/main/cpp/enhanced_native_crash_handler.cpp          *)
(* One process, two application threads.  A thread may call initialize,   *)
(* and may receive a fatal signal; the handler runs on the faulting        *)
(* thread, one source statement group per step, so that the unsynchronised *)
(* accesses to the process-wide state interleave as they can in the code.  *)
(***************************************************************************)
EXTENDS Integers, Sequences, FiniteSets, TLC

\* ------------------------------------------------------------------ bounds
AddrBits == 12          \* width of the modelled address space
ExtraFrames == 2        \* frames the unwinder offers beyond max_frames

\* ------------------------------------------------------- program constants
MAX_STACK_FRAMES_BASIC == 64
MAX_STACK_FRAMES_ENHANCED == 128
MEMORY_DUMP_SIZE == 256

Threads == {"t1", "t2"}
Variants == {"basic", "enhanced"}
\* The architectures the enhanced file has a branch for: __aarch64__,
\* __arm__, __i386__, __x86_64__.
Archs == {"arm64", "arm", "x86", "x86_64"}

\* The six signals initialize installs the handler for, in install order.
InstallOrder == <<"SIGSEGV", "SIGABRT", "SIGFPE", "SIGILL", "SIGBUS", "SIGTRAP">>
Handled == {InstallOrder[k] : k \in 1..Len(InstallOrder)}
\* One signal the subsystem never touches.
OtherSignals == {"SIGUSR1"}
AllSignals == Handled \cup OtherSignals

\* Values of the handler word of a struct sigaction.  sa_handler and
\* sa_sigaction name the same storage (they are members of one union in the
\* C library the code is built against), SIG_DFL is the null value and
\* SIG_IGN is a non-null sentinel.
SIG_DFL == "SIG_DFL"
SIG_IGN == "SIG_IGN"
AppHandler1 == "app_sa_handler"       \* a one-argument handler of the app
AppHandler3 == "app_sa_sigaction"     \* a three-argument handler of the app
CrashHandler == "signal_handler"      \* this subsystem's signal_handler
PriorKinds == <<SIG_DFL, SIG_IGN, AppHandler1, AppHandler3>>
Dispositions == {SIG_DFL, SIG_IGN, AppHandler1, AppHandler3, CrashHandler}
RealHandlers == {AppHandler1, AppHandler3, CrashHandler}

sa_sigaction(act) == act
sa_handler(act) == act
NULL == SIG_DFL

\* ------------------------------------------------------------ environment
AddrSpace == 2 ^ AddrBits
MapLo == 4 * MEMORY_DUMP_SIZE          \* first mapped byte
MapHi == 8 * MEMORY_DUMP_SIZE          \* first byte after the mapped region
Mapped(a) == a >= MapLo /\ a < MapHi
ByteAt(a) == (a * 7 + 3) % 256
\* null, near-null (window wraps), whole window mapped, window crossing the
\* end of the mapping, wholly unmapped
FaultAddrs == {0, 16, MapLo + MEMORY_DUMP_SIZE, MapHi - 100, MapHi + MEMORY_DUMP_SIZE}
\* The faults raised while two threads may fault concurrently: a signal whose
\* nested fault is blocked and one whose nested fault is not; a null, a
\* readable and an unreadable address.
RaceSignals == {"SIGSEGV", "SIGABRT"}
RaceAddrs == {0, MapLo + MEMORY_DUMP_SIZE, MapHi - 100}

CrashDirs == {"/data/app/files", "/readonly"}
NoPath == [dir |-> "", file |-> ""]
Writable(path) == path.dir = "/data/app/files"

\* The kernel's id of each thread, the name the application gave it, the
\* process id and the wall-clock second of the fault.
gettid(t) == IF t = "t1" THEN 4001 ELSE 4002
ThreadNames == [t \in Threads |-> IF t = "t1" THEN "main" ELSE "worker"]
getpid == 4000
CrashTime == 1700000000

\* The dynamic linker's answer for an address: dladdr fails, or succeeds
\* with both names, with the object name only, or with neither name.
\* NoName is a null char pointer.  The names are those of the object file
\* and of the symbol, of whatever length they have there: in every second
\* block of 32 bytes the symbol is a long mangled name and the object path a
\* long one.
NoName == "(null)"
SymbolSize == 8
LongSymbol == "_ZN3app6detail7invokerINS_..."
LongPath == "/data/app/~~.../lib/arm64/libapp.so"
dladdr(a) ==
    LET kind == (a \div SymbolSize) % 4
        base == a - (a % SymbolSize)
        long == (a \div 32) % 2 = 1
    IN IF kind = 0 THEN [ok |-> FALSE, dli_fname |-> NoName, dli_sname |-> NoName,
                         dli_saddr |-> 0]
       ELSE IF kind = 1 THEN [ok |-> TRUE, dli_fname |-> "libapp.so",
                              dli_sname |-> IF long THEN LongSymbol ELSE "crash_fn",
                              dli_saddr |-> base]
       ELSE IF kind = 2 THEN [ok |-> TRUE,
                              dli_fname |-> IF long THEN LongPath ELSE "libapp.so",
                              dli_sname |-> NoName, dli_saddr |-> 0]
       ELSE [ok |-> TRUE, dli_fname |-> NoName, dli_sname |-> NoName,
             dli_saddr |-> 0]

\* Position of an element in a sequence without repeats.
IndexIn(seq, p) == CHOOSE k \in 1..Len(seq) : seq[k] = p

SigIndex(s) == CHOOSE k \in 1..Len(InstallOrder) : InstallOrder[k] = s
\* Dispositions the application set before initialize: table r gives the
\* k-th signal the kind (k + r) mod 4.  Over the two tables every kind occurs,
\* SIGSEGV is ignored or has a three-argument handler, SIGABRT has a
\* one-argument handler or the default, and no signal keeps its kind.
PriorTable(r) ==
    [s \in AllSignals |->
        IF s \in Handled THEN PriorKinds[((SigIndex(s) + r) % 4) + 1]
        ELSE PriorKinds[(r % 4) + 1]]
PriorTables == {PriorTable(0), PriorTable(2)}

VARIABLES
    variant,            \* which of the two source files is built
    arch,               \* the architecture it is built for
    prior,              \* dispositions before any initialize (history)
    disp,               \* the kernel's active disposition of each signal
    g_initialized,
    g_crash_file_path,
    g_old_handlers,
    handling_crash,
    g_crash_info,
    file,               \* the file at the report path
    pc,                 \* position of each thread
    dirArg,             \* crash_dir argument of a running initialize
    instIdx,            \* next sigaction of a running initialize
    hsig,               \* sig argument of the running signal_handler
    haddr,              \* info->si_addr of the running signal_handler
    proc,               \* process status
    installs,           \* history: initialize calls that passed the check
    faults,             \* history: faults raised by application code
    delivered,          \* history: the fault application code raised on a thread
    opens,              \* history: successful opens of the report file
    passed,             \* history: threads that passed the recursion guard
    infoWriters,        \* history: threads that wrote g_crash_info
    chained,            \* history: what each handler invocation chained to
    calls               \* history: library functions signal_handler has called

vars == <<variant, arch, prior, disp, g_initialized, g_crash_file_path,
          g_old_handlers, handling_crash, g_crash_info, file, pc, dirArg,
          instIdx, hsig, haddr, proc, installs, faults, delivered, opens,
          passed,
          infoWriters, chained, calls>>

instVars == <<g_initialized, g_crash_file_path, g_old_handlers, installs>>
crashVars == <<handling_crash, g_crash_info, file, opens, passed,
               infoWriters, chained>>
sigVars == <<hsig, haddr>>

\* ---- the machine context the kernel hands to a handler on thread t
\* Every register of the faulting thread holds a value of its own.
RegBase(t) == IF t = "t1" THEN 1000 ELSE 2000
X86Gregs == <<"REG_EIP", "REG_ESP", "REG_EBP", "REG_EAX", "REG_EBX", "REG_ECX",
              "REG_EDX", "REG_ESI", "REG_EDI">>
X64Gregs == <<"REG_RIP", "REG_RSP", "REG_RBP", "REG_RAX", "REG_RBX", "REG_RCX",
              "REG_RDX", "REG_RSI", "REG_RDI", "REG_R8", "REG_R9", "REG_R10",
              "REG_R11", "REG_R12", "REG_R13", "REG_R14", "REG_R15">>
NamesOf(seq) == {seq[k] : k \in 1..Len(seq)}
NoContext == [none |-> TRUE]
MachineContext(t) ==
    LET b == RegBase(t) IN
    CASE arch = "arm64" ->
           [pc |-> b + 100, sp |-> b + 101, pstate |-> b + 102,
            regs |-> [i \in 0..30 |-> b + i]]
      [] arch = "arm" ->
           [arm_r0 |-> b, arm_r1 |-> b + 1, arm_r2 |-> b + 2, arm_r3 |-> b + 3,
            arm_r4 |-> b + 4, arm_r5 |-> b + 5, arm_r6 |-> b + 6, arm_r7 |-> b + 7,
            arm_r8 |-> b + 8, arm_r9 |-> b + 9, arm_r10 |-> b + 10,
            arm_fp |-> b + 11, arm_ip |-> b + 12, arm_sp |-> b + 13,
            arm_lr |-> b + 14, arm_pc |-> b + 15, arm_cpsr |-> b + 16]
      [] arch = "x86" ->
           [gregs |-> [r \in NamesOf(X86Gregs) |-> b + IndexIn(X86Gregs, r)]]
      [] arch = "x86_64" ->
           [gregs |-> [r \in NamesOf(X64Gregs) |-> b + IndexIn(X64Gregs, r)]]

\* the registers member of a zero-filled EnhancedCrashInfo; CrashInfo of the
\* basic file has no such member
ZeroRegisters ==
    IF variant = "basic" THEN <<>>
    ELSE CASE arch = "arm64" ->
                [pc |-> 0, sp |-> 0, lr |-> 0, x |-> [i \in 0..30 |-> 0], cpsr |-> 0]
           [] arch = "arm" ->
                [pc |-> 0, sp |-> 0, lr |-> 0, r |-> [i \in 0..15 |-> 0], cpsr |-> 0]
           [] arch = "x86" ->
                [pc |-> 0, sp |-> 0, lr |-> 0,
                 eax |-> 0, ebx |-> 0, ecx |-> 0, edx |-> 0,
                 esi |-> 0, edi |-> 0, ebp |-> 0, esp |-> 0, eip |-> 0]
           [] arch = "x86_64" ->
                [pc |-> 0, sp |-> 0, lr |-> 0,
                 rax |-> 0, rbx |-> 0, rcx |-> 0, rdx |-> 0,
                 rsi |-> 0, rdi |-> 0, rbp |-> 0, rsp |-> 0, rip |-> 0,
                 r8 |-> 0, r9 |-> 0, r10 |-> 0, r11 |-> 0,
                 r12 |-> 0, r13 |-> 0, r14 |-> 0, r15 |-> 0]

MaxFrames == IF variant = "basic" THEN MAX_STACK_FRAMES_BASIC
             ELSE MAX_STACK_FRAMES_ENHANCED

ZeroBuf == [i \in 0..(MEMORY_DUMP_SIZE - 1) |-> 0]
\* A zero-filled crash-info object (static storage, and after memset).
ZeroInfo ==
    [signal |-> "", code |-> 0, fault_address |-> 0, signal_name |-> "",
     thread_name |-> <<>>, pid |-> 0, tid |-> 0, crash_time |-> 0,
     frame_count |-> 0, stack_frames |-> <<>>,
     registers |-> ZeroRegisters,
     memory_before |-> ZeroBuf, memory_after |-> ZeroBuf,
     memory_readable |-> FALSE]

\* content is the sequence of write calls the file holds, each a format
\* with its arguments.
\* truncated tells whether the open that wrote it found a file to truncate.
NoFile == [exists |-> FALSE, report |-> ZeroInfo, by |-> "", content |-> <<>>,
           truncated |-> FALSE]
\* A report left at the path by an earlier run of the application.
StaleLine == [fmt |-> "NATIVE_CRASH of an earlier run\n", args |-> <<>>]
StaleFile == [exists |-> TRUE, report |-> ZeroInfo, by |-> "earlier run",
              content |-> <<StaleLine, StaleLine, StaleLine>>, truncated |-> FALSE]
Running == [state |-> "running", status |-> ""]

\* The process before any call of initialize, with the statics of the file
\* zero-initialised.
Boot ==
    /\ prior \in PriorTables
    /\ disp = prior
    /\ g_initialized = FALSE
    /\ g_crash_file_path = NoPath
    /\ g_old_handlers = [s \in AllSignals |-> SIG_DFL]
    /\ handling_crash = 0
    /\ g_crash_info = ZeroInfo
    /\ pc = [t \in Threads |-> "idle"]
    /\ dirArg = [t \in Threads |-> ""]
    /\ instIdx = [t \in Threads |-> 0]
    /\ hsig = [t \in Threads |-> ""]
    /\ haddr = [t \in Threads |-> 0]
    /\ proc = Running
    /\ installs = 0
    /\ faults = 0
    /\ delivered = [t \in Threads |-> [sig |-> "", addr |-> 0]]
    /\ opens = 0
    /\ passed = {}
    /\ infoWriters = {}
    /\ chained = [t \in Threads |-> "none"]
    /\ calls = {}

\* either source file, built for arm64, no file at the report path
Init == variant \in Variants /\ arch = "arm64" /\ file = NoFile /\ Boot
\* the enhanced file, built for any of its architectures
InitArch == variant = "enhanced" /\ arch \in Archs /\ file = NoFile /\ Boot
\* either source file, a report of an earlier run at the report path
InitStale == variant \in Variants /\ arch = "arm64" /\ file = StaleFile /\ Boot

Alive == proc.state = "running"

\* ------------------------------------------------------------- initialize
\* the test left out: every call installs
AlreadyInitialized_TestDropped(flag) == FALSE

\* if (g_initialized) { ...; return; }
AlreadyInitialized(flag) == flag

\* initialize, entry: the g_initialized test.
InitializeEnter(t, dir) ==
    /\ Alive /\ pc[t] = "idle"
    /\ IF AlreadyInitialized(g_initialized)
       THEN /\ pc' = [pc EXCEPT ![t] = "init_already"]
            /\ UNCHANGED <<dirArg, installs>>
       ELSE /\ pc' = [pc EXCEPT ![t] = "init_path"]
            /\ dirArg' = [dirArg EXCEPT ![t] = dir]
            /\ installs' = installs + 1
    /\ UNCHANGED <<calls, variant, arch, prior, disp, g_initialized, g_crash_file_path,
                   g_old_handlers, instIdx, proc, faults, delivered>>
    /\ UNCHANGED crashVars /\ UNCHANGED sigVars

\* initialize, "already initialized": log and return.
InitializeAlready(t) ==
    /\ Alive /\ pc[t] = "init_already"
    /\ pc' = [pc EXCEPT ![t] = "idle"]
    /\ UNCHANGED <<calls, variant, arch, prior, disp, dirArg, instIdx, proc, faults, delivered>>
    /\ UNCHANGED instVars /\ UNCHANGED crashVars /\ UNCHANGED sigVars

\* snprintf(g_crash_file_path, ..., "%s/native_crash.txt", crash_dir_str)
CrashFilePath(dir) == [dir |-> dir, file |-> "native_crash.txt"]

InitializePath(t) ==
    /\ Alive /\ pc[t] = "init_path"
    /\ g_crash_file_path' = CrashFilePath(dirArg[t])
    /\ pc' = [pc EXCEPT ![t] = "init_sigaction"]
    /\ instIdx' = [instIdx EXCEPT ![t] = 1]
    /\ UNCHANGED <<calls, variant, arch, prior, disp, g_initialized, g_old_handlers,
                   installs, dirArg, proc, faults, delivered>>
    /\ UNCHANGED crashVars /\ UNCHANGED sigVars

\* sigaction(sig, &sa, &g_old_handlers[sig]): the slot the old disposition
\* is stored in and the value stored.
\* the new action stored where the old one belongs
OldSlot(sig) == sig

\* the new action stored where the old one belongs
SavedOld_StoresNew(sig, old, new) == new

SavedOld(sig, old, new) == old

\* the last sigaction call left out
InstallCalls_OneShort == Len(InstallOrder) - 1

\* the number of sigaction calls initialize makes before it sets the flag
InstallCalls == Len(InstallOrder)

\* sigaction(sig, &sa, &g_old_handlers[sig]), one call per step.
InitializeSigaction(t) ==
    /\ Alive /\ pc[t] = "init_sigaction"
    /\ LET sig == InstallOrder[instIdx[t]] IN
        /\ g_old_handlers' =
              [g_old_handlers EXCEPT ![OldSlot(sig)] = SavedOld(sig, disp[sig], CrashHandler)]
        /\ disp' = [disp EXCEPT ![sig] = CrashHandler]
    /\ IF instIdx[t] < InstallCalls
       THEN /\ instIdx' = [instIdx EXCEPT ![t] = instIdx[t] + 1]
            /\ pc' = pc
       ELSE /\ instIdx' = [instIdx EXCEPT ![t] = 0]
            /\ pc' = [pc EXCEPT ![t] = "init_done"]
    /\ UNCHANGED <<calls, variant, arch, prior, g_initialized, g_crash_file_path,
                   installs, dirArg, proc, faults, delivered>>
    /\ UNCHANGED crashVars /\ UNCHANGED sigVars

\* g_initialized = true; return.
InitializeDone(t) ==
    /\ Alive /\ pc[t] = "init_done"
    /\ g_initialized' = TRUE
    /\ pc' = [pc EXCEPT ![t] = "idle"]
    /\ dirArg' = [dirArg EXCEPT ![t] = ""]
    /\ UNCHANGED <<calls, variant, arch, prior, disp, g_crash_file_path, g_old_handlers,
                   installs, instIdx, proc, faults, delivered>>
    /\ UNCHANGED crashVars /\ UNCHANGED sigVars

\* isInitialized()
isInitialized == g_initialized

\* ------------------------------------------------------------- the kernel
Killed(sig) == [state |-> "killed", status |-> sig]
Exited(code) == [state |-> "exited", status |-> code]
\* the application's own handler took the signal: outside this subsystem
AppHandled(sig) == [state |-> "app_handler", status |-> sig]

\* A fault raised by application code on thread t, delivered by the kernel
\* according to the active disposition.
Fault(t, sig, addr) ==
    /\ Alive /\ pc[t] = "idle"
    /\ faults' = faults + 1
    /\ delivered' = [delivered EXCEPT ![t] = [sig |-> sig, addr |-> addr]]
    /\ IF disp[sig] = CrashHandler
       THEN /\ pc' = [pc EXCEPT ![t] = "guard"]
            /\ hsig' = [hsig EXCEPT ![t] = sig]
            /\ haddr' = [haddr EXCEPT ![t] = addr]
            /\ proc' = proc
       ELSE /\ proc' = IF disp[sig] \in {SIG_DFL, SIG_IGN}
                       THEN Killed(sig) ELSE AppHandled(sig)
            /\ UNCHANGED <<pc, hsig, haddr>>
    /\ UNCHANGED <<calls, variant, arch, prior, disp, dirArg, instIdx>>
    /\ UNCHANGED instVars /\ UNCHANGED crashVars

\* A fault raised by the handler itself while it runs on thread t for
\* hsig[t].  sa_flags has no SA_NODEFER and sa_mask is empty, so exactly the
\* signal being handled is blocked; a synchronous fault on a blocked,
\* defaulted or ignored signal kills the process.
NestedFault(t, sig, addr) ==
    IF sig = hsig[t] \/ disp[sig] \in {SIG_DFL, SIG_IGN}
    THEN /\ proc' = Killed(sig)
         /\ UNCHANGED <<pc, hsig, haddr>>
    ELSE IF disp[sig] = CrashHandler
    THEN /\ pc' = [pc EXCEPT ![t] = "guard"]
         /\ hsig' = [hsig EXCEPT ![t] = sig]
         /\ haddr' = [haddr EXCEPT ![t] = addr]
         /\ proc' = proc
    ELSE /\ proc' = AppHandled(sig)
         /\ UNCHANGED <<pc, hsig, haddr>>

\* --------------------------------------------------------- signal_handler
get_signal_name(sig) == IF sig \in Handled THEN sig ELSE "UNKNOWN"

\* the early exit left out: a re-entered handler carries on
GuardExits_Never(flag) == FALSE

\* if (handling_crash) _exit(1);
GuardExits(flag) == flag # 0

GuardCheck(t) ==
    /\ Alive /\ pc[t] = "guard"
    /\ IF GuardExits(handling_crash)
       THEN /\ proc' = Exited(1)
            /\ pc' = pc
       ELSE /\ pc' = [pc EXCEPT ![t] = "guard_set"]
            /\ proc' = proc
    /\ calls' = calls \cup (IF GuardExits(handling_crash) THEN {"_exit"} ELSE {})
    /\ UNCHANGED <<variant, arch, prior, disp, dirArg, instIdx, faults, delivered>>
    /\ UNCHANGED instVars /\ UNCHANGED crashVars /\ UNCHANGED sigVars

\* the stack walked before the memory around the fault address is read
StepAfter_UnwindFirst(p) ==
    LET steps == IF variant = "basic"
                 THEN <<"guard_set", "collect", "unwind", "write", "chain", "reset", "raise">>
                 ELSE <<"guard_set", "collect", "unwind", "memdump", "write", "chain",
                        "reset", "raise">>
    IN steps[IndexIn(steps, p) + 1]

\* The statement group signal_handler runs after group p, in the order of
\* the source: the flag store, the crash-info fields (with the registers in
\* the enhanced build), capture_memory_dump (enhanced build only),
\* capture_stack_trace, write_crash_to_file, the call of the original
\* handler, signal(sig, SIG_DFL), raise(sig).
StepAfter(p) ==
    LET steps == IF variant = "basic"
                 THEN <<"guard_set", "collect", "unwind", "write", "chain", "reset", "raise">>
                 ELSE <<"guard_set", "collect", "memdump", "unwind", "write", "chain",
                        "reset", "raise">>
    IN steps[IndexIn(steps, p) + 1]

\* handling_crash = 1;
GuardSet(t) ==
    /\ Alive /\ pc[t] = "guard_set"
    /\ handling_crash' = 1
    /\ passed' = passed \cup {t}
    /\ pc' = [pc EXCEPT ![t] = StepAfter("guard_set")]
    /\ UNCHANGED <<calls, variant, arch, prior, disp, dirArg, instIdx, faults, delivered, proc,
                   g_crash_info, file, opens, infoWriters, chained>>
    /\ UNCHANGED instVars /\ UNCHANGED sigVars

get_signal_description(sig) ==
    CASE sig = "SIGSEGV" -> "Segmentation fault (invalid memory access)"
      [] sig = "SIGABRT" -> "Abort signal (abnormal termination)"
      [] sig = "SIGFPE" -> "Floating point exception"
      [] sig = "SIGILL" -> "Illegal instruction"
      [] sig = "SIGBUS" -> "Bus error (invalid memory alignment)"
      [] sig = "SIGTRAP" -> "Trace/breakpoint trap"
      [] OTHER -> "Unknown signal"

\* the buffer left as it is when the lookup fails
get_thread_name_NoFallback(t, named) ==
    IF named THEN <<ThreadNames[t]>> ELSE <<>>

\* get_thread_name(buffer, size) on thread t.  named: the build has
\* pthread_getname_np (__ANDROID_API__ >= 26) and the call returned 0;
\* otherwise the name is printed as "Thread-%d" of gettid().
get_thread_name(t, named) ==
    IF named THEN <<ThreadNames[t]>> ELSE <<"Thread-", gettid(t)>>

\* memset(&g_crash_info, 0, ...); signal, code, fault_address, pid, tid,
\* crash_time, signal_name, thread_name
CollectInfo(t, sig, addr, named) ==
    [ZeroInfo EXCEPT !.signal = sig, !.fault_address = addr,
                     !.pid = getpid, !.tid = gettid(t),
                     !.crash_time = CrashTime,
                     !.signal_name = get_signal_name(sig),
                     !.thread_name = get_thread_name(t, named)]

\* capture_registers(info, context)
capture_registers(info, context) ==
    IF context = NoContext THEN info
    ELSE CASE arch = "arm64" ->
                [info EXCEPT !.registers.pc = context.pc,
                             !.registers.sp = context.sp,
                             !.registers.lr = context.regs[30],
                             !.registers.cpsr = context.pstate,
                             !.registers.x = [i \in 0..30 |-> context.regs[i]]]
           [] arch = "arm" ->
                [info EXCEPT !.registers.pc = context.arm_pc,
                             !.registers.sp = context.arm_sp,
                             !.registers.lr = context.arm_lr,
                             !.registers.cpsr = context.arm_cpsr,
                             !.registers.r =
                                 LET rs == <<context.arm_r0, context.arm_r1,
                                             context.arm_r2, context.arm_r3,
                                             context.arm_r4, context.arm_r5,
                                             context.arm_r6, context.arm_r7,
                                             context.arm_r8, context.arm_r9,
                                             context.arm_r10, context.arm_fp,
                                             context.arm_ip, context.arm_sp,
                                             context.arm_lr, context.arm_pc>>
                                 IN [i \in 0..15 |-> rs[i + 1]]]
           [] arch = "x86_64" ->
                [info EXCEPT !.registers.rip = context.gregs["REG_RIP"],
                             !.registers.rsp = context.gregs["REG_RSP"],
                             !.registers.rbp = context.gregs["REG_RBP"],
                             !.registers.rax = context.gregs["REG_RAX"],
                             !.registers.rbx = context.gregs["REG_RBX"],
                             !.registers.rcx = context.gregs["REG_RCX"],
                             !.registers.rdx = context.gregs["REG_RDX"],
                             !.registers.rsi = context.gregs["REG_RSI"],
                             !.registers.rdi = context.gregs["REG_RDI"]]
           [] arch = "x86" ->
                [info EXCEPT !.registers.eip = context.gregs["REG_EIP"],
                             !.registers.esp = context.gregs["REG_ESP"],
                             !.registers.ebp = context.gregs["REG_EBP"],
                             !.registers.eax = context.gregs["REG_EAX"],
                             !.registers.ebx = context.gregs["REG_EBX"],
                             !.registers.ecx = context.gregs["REG_ECX"],
                             !.registers.edx = context.gregs["REG_EDX"],
                             !.registers.esi = context.gregs["REG_ESI"],
                             !.registers.edi = context.gregs["REG_EDI"]]

\* the library functions the statements of the collect step call;
\* get_thread_name calls pthread_getname_np where the build has it and
\* snprintf where the call is absent or failed
CollectCalls(named) ==
    {"memset", "getpid", "gettid", "time", "strncpy"} \cup
    (IF named THEN {"pthread_self", "pthread_getname_np"} ELSE {"snprintf"})

Collect(t, named) ==
    /\ Alive /\ pc[t] = "collect"
    /\ g_crash_info' =
          IF variant = "enhanced"
          THEN capture_registers(CollectInfo(t, hsig[t], haddr[t], named),
                                 MachineContext(t))
          ELSE CollectInfo(t, hsig[t], haddr[t], named)
    /\ infoWriters' = infoWriters \cup {t}
    /\ pc' = [pc EXCEPT ![t] = StepAfter("collect")]
    /\ calls' = calls \cup CollectCalls(named)
    /\ UNCHANGED <<variant, arch, prior, disp, dirArg, instIdx, faults, delivered, proc,
                   handling_crash, file, opens, passed, chained>>
    /\ UNCHANGED instVars /\ UNCHANGED sigVars

\* ---- capture_memory_dump
Wrap(a) == (a + AddrSpace) % AddrSpace
\* the window walked downwards from its first byte
BeforeAddr_Downwards(addr, i) == Wrap(addr - MEMORY_DUMP_SIZE - i)

\* read_addr = addr - MEMORY_DUMP_SIZE + i
BeforeAddr(addr, i) == Wrap(addr - MEMORY_DUMP_SIZE + i)
\* read_addr = addr + i
AfterAddr(addr, i) == Wrap(addr + i)
DumpIdx == 0..(MEMORY_DUMP_SIZE - 1)
\* the k-th byte the two loops read, k in 0 .. 2*MEMORY_DUMP_SIZE-1
ReadAddr(addr, k) ==
    IF k < MEMORY_DUMP_SIZE THEN BeforeAddr(addr, k)
    ELSE AfterAddr(addr, k - MEMORY_DUMP_SIZE)
ReadIdx == 0..(2 * MEMORY_DUMP_SIZE - 1)
WindowMapped(addr) == \A k \in ReadIdx : Mapped(ReadAddr(addr, k))
\* index of the first read that touches an unmapped byte
FirstBad(addr) ==
    CHOOSE k \in ReadIdx :
        /\ ~Mapped(ReadAddr(addr, k))
        /\ \A j \in 0..(k - 1) : Mapped(ReadAddr(addr, j))

\* The crash info after the loops have performed their first n reads.
MemoryCopied(info, n, done) ==
    [info EXCEPT
        !.memory_before = [i \in DumpIdx |->
            IF i < n THEN ByteAt(BeforeAddr(info.fault_address, i))
            ELSE info.memory_before[i]],
        !.memory_after = [i \in DumpIdx |->
            IF i + MEMORY_DUMP_SIZE < n THEN ByteAt(AfterAddr(info.fault_address, i))
            ELSE info.memory_after[i]],
        !.memory_readable = done]

\* capture_memory_dump(&g_crash_info): the byte copies are unguarded, so the
\* first read of an unmapped byte raises SIGSEGV inside the handler.
CaptureMemoryDump(t) ==
    /\ Alive /\ pc[t] = "memdump"
    /\ LET info == [g_crash_info EXCEPT !.memory_readable = FALSE]
           addr == info.fault_address
       IN IF addr = 0
          THEN /\ g_crash_info' = info
               /\ pc' = [pc EXCEPT ![t] = StepAfter("memdump")]
               /\ UNCHANGED <<proc, hsig, haddr>>
          ELSE IF WindowMapped(addr)
          THEN /\ g_crash_info' = MemoryCopied(info, 2 * MEMORY_DUMP_SIZE, TRUE)
               /\ pc' = [pc EXCEPT ![t] = StepAfter("memdump")]
               /\ UNCHANGED <<proc, hsig, haddr>>
          ELSE \E bad \in {FirstBad(addr)} :
                  /\ g_crash_info' = MemoryCopied(info, bad, FALSE)
                  /\ NestedFault(t, "SIGSEGV", ReadAddr(addr, bad))
    /\ calls' = calls \cup {}
    /\ UNCHANGED <<variant, arch, prior, disp, dirArg, instIdx, faults, delivered,
                   handling_crash, file, opens, passed, infoWriters, chained>>
    /\ UNCHANGED instVars

\* ---- capture_stack_trace
\* the bound tested after the store it should prevent
unwind_callback_OffByOne(state, ip) ==
    IF state.frame_count > state.max_frames
    THEN [state EXCEPT !.stopped = TRUE]
    ELSE IF ip # 0
         THEN [state EXCEPT !.frames = Append(state.frames, ip),
                            !.frame_count = state.frame_count + 1]
         ELSE state

\* unwind_callback(context, arg): one call, for a frame whose ip is ip.
\* state is the UnwindState; stopped records a return of _URC_END_OF_STACK.
unwind_callback(state, ip) ==
    IF state.frame_count >= state.max_frames
    THEN [state EXCEPT !.stopped = TRUE]
    ELSE IF ip # 0
         THEN [state EXCEPT !.frames = Append(state.frames, ip),
                            !.frame_count = state.frame_count + 1]
         ELSE state

\* _Unwind_Backtrace: the callback is called for offered[lo..hi] in order,
\* until it asks to stop.
RECURSIVE Unwind_Backtrace(_, _, _, _)
Unwind_Backtrace(state, offered, lo, hi) ==
    IF lo > hi \/ state.stopped THEN state
    ELSE IF lo = hi THEN unwind_callback(state, offered[lo])
    ELSE LET mid == (lo + hi) \div 2 IN
         Unwind_Backtrace(Unwind_Backtrace(state, offered, lo, mid),
                          offered, mid + 1, hi)

capture_stack_trace(offered, max_frames) ==
    Unwind_Backtrace([frames |-> <<>>, frame_count |-> 0,
                      max_frames |-> max_frames, stopped |-> FALSE],
                     offered, 1, Len(offered))

\* What _Unwind_Backtrace can offer: nothing, a short stack with a zero pc,
\* a stack deeper than max_frames.
ShortStack == <<MapLo + 8, 0, MapLo + 24>>
OfferedStacks ==
    { <<>>,
      ShortStack,
      [i \in 1..(MaxFrames + ExtraFrames) |-> MapLo + i] }
\* The stack offered while two threads may fault concurrently.
RaceStacks == {ShortStack}

CaptureStackTrace(t, offered) ==
    /\ Alive /\ pc[t] = "unwind"
    /\ LET state == capture_stack_trace(offered, MaxFrames) IN
        g_crash_info' = [g_crash_info EXCEPT !.stack_frames = state.frames,
                                             !.frame_count = state.frame_count]
    /\ pc' = [pc EXCEPT ![t] = StepAfter("unwind")]
    /\ calls' = calls \cup {"_Unwind_Backtrace", "_Unwind_GetIP"}
    /\ UNCHANGED <<variant, arch, prior, disp, dirArg, instIdx, faults, delivered, proc,
                   handling_crash, file, opens, passed, infoWriters, chained>>
    /\ UNCHANGED instVars /\ UNCHANGED sigVars

\* ---- write_crash_to_file
\* the result of open never tested: the report is written whatever it was
OpenSucceeds_Always(path) == TRUE

\* open(g_crash_file_path, O_CREAT | O_WRONLY | O_TRUNC, 0644) succeeds
OpenSucceeds(path) == Writable(path)

\* One write(fd, buffer, len) of a text printed with format fmt.
Line(fmt, args) == [fmt |-> fmt, args |-> args]

HeaderFormat ==
    IF variant = "basic"
    THEN "NATIVE_CRASH\nSignal: %s (%d)\nDescription: %s\nCode: %d\nFault Address: %p\nThread: %s\nPID: %d\nTID: %d\nTime: %ld\nFrame Count: %zu\n"
    ELSE "NATIVE_CRASH\nSignal: %s (%d)\nDescription: %s\nCode: %d\nFault Address: %p\nThread: %s\nPID: %d\nTID: %d\nTime: %ld\nFrame Count: %zu\n\n"
HeaderLine(info) ==
    Line(HeaderFormat,
         <<info.signal_name, info.signal, get_signal_description(info.signal),
           info.code, info.fault_address, info.thread_name, info.pid,
           info.tid, info.crash_time, info.frame_count>>)

StackTitle == IF variant = "basic" THEN "Stack Trace:\n" ELSE "STACK TRACE:\n"
ResolvedFormat ==
    IF variant = "basic" THEN "#%02zu pc %p %s (%s+%p)\n" ELSE "#%03zu pc %p %s (%s+%p)\n"
UnresolvedFormat ==
    IF variant = "basic" THEN "#%02zu pc %p ???\n" ELSE "#%03zu pc %p ???\n"
OrUnknown(name) == IF name # NoName THEN name ELSE "???"

\* the line of frame i (from 0) of the stack trace
FrameLine(i, frame) ==
    LET dl_info == dladdr(frame) IN
    IF dl_info.ok
    THEN Line(ResolvedFormat,
              <<i, frame, OrUnknown(dl_info.dli_fname), OrUnknown(dl_info.dli_sname),
                Wrap(frame - dl_info.dli_saddr)>>)
    ELSE Line(UnresolvedFormat, <<i, frame>>)

\* for (i = 0; i < info->frame_count; i++): reads stack_frames[i]
StackBlock(info) ==
    <<Line(StackTitle, <<>>)>> \o
    [k \in 1..info.frame_count |-> FrameLine(k - 1, info.stack_frames[k])]

\* the lines between "REGISTERS:" and the empty line: printed by the
\* __aarch64__ and __arm__ branches only
RegisterLines(info) ==
    CASE arch = "arm64" ->
           <<Line("  pc:   %016lx\n  sp:   %016lx\n  lr:   %016lx\n  cpsr: %016lx\n",
                  <<info.registers.pc, info.registers.sp, info.registers.lr,
                    info.registers.cpsr>>)>> \o
           [k \in 1..31 |-> Line("  x%-2d:  %016lx\n", <<k - 1, info.registers.x[k - 1]>>)]
      [] arch = "arm" ->
           <<Line("  pc:   %08lx\n  sp:   %08lx\n  lr:   %08lx\n  cpsr: %08lx\n",
                  <<info.registers.pc, info.registers.sp, info.registers.lr,
                    info.registers.cpsr>>)>> \o
           [k \in 1..16 |-> Line("  r%-2d:  %08lx\n", <<k - 1, info.registers.r[k - 1]>>)]
      [] OTHER -> <<>>

RegistersBlock(info) ==
    <<Line("REGISTERS:\n", <<>>)>> \o RegisterLines(info) \o <<Line("\n", <<>>)>>

BytesPerLine == 16
\* one row of the hex dump: the offset, then one write per byte, then "\n"
HexRow(buf, i) ==
    <<Line("%04x: ", <<i>>)>> \o
    [j \in 1..BytesPerLine |-> Line("%02x ", <<buf[i + j - 1]>>)] \o
    <<Line("\n", <<>>)>>

RECURSIVE HexRows(_, _)
\* for (i = 0; i < MEMORY_DUMP_SIZE; i += 16), rows from offset i on
HexRows(buf, i) ==
    IF i >= MEMORY_DUMP_SIZE THEN <<>>
    ELSE HexRow(buf, i) \o HexRows(buf, i + BytesPerLine)

\* the dump printed whether or not the memory was read
MemoryBlock_Unconditional(info) ==
    <<Line("\nMEMORY DUMP:\n", <<>>),
      Line("Before fault address (%p - 256):\n", <<info.fault_address>>)>> \o
    HexRows(info.memory_before, 0) \o
    <<Line("\nAfter fault address (%p):\n", <<info.fault_address>>)>> \o
    HexRows(info.memory_after, 0)

\* if (info->memory_readable) { ... }
MemoryBlock(info) ==
    IF info.memory_readable
    THEN <<Line("\nMEMORY DUMP:\n", <<>>),
           Line("Before fault address (%p - 256):\n", <<info.fault_address>>)>> \o
         HexRows(info.memory_before, 0) \o
         <<Line("\nAfter fault address (%p):\n", <<info.fault_address>>)>> \o
         HexRows(info.memory_after, 0)
    ELSE <<>>

\* everything write_crash_to_file writes between open and close
Serialize(info) ==
    IF variant = "basic"
    THEN <<HeaderLine(info)>> \o StackBlock(info)
    ELSE <<HeaderLine(info)>> \o RegistersBlock(info) \o StackBlock(info) \o
         MemoryBlock(info)

\* O_TRUNC left out: the writes land after the earlier content
Truncated_Kept(content) == content

\* O_TRUNC: what an opened file keeps of its earlier content
Truncated(content) == <<>>

\* the library functions write_crash_to_file calls
WriteCalls(info, opened) ==
    {"open"} \cup
    (IF opened
     THEN {"snprintf", "write", "close", "__android_log_print"} \cup
          (IF info.frame_count > 0 THEN {"dladdr"} ELSE {})
     ELSE {})

WriteCrashToFile(t) ==
    /\ Alive /\ pc[t] = "write"
    /\ IF OpenSucceeds(g_crash_file_path)
       THEN /\ file' = [exists |-> TRUE, report |-> g_crash_info, by |-> t,
                        content |-> Truncated(file.content) \o Serialize(g_crash_info),
                        truncated |-> file.exists]
            /\ opens' = opens + 1
       ELSE UNCHANGED <<file, opens>>
    /\ pc' = [pc EXCEPT ![t] = StepAfter("write")]
    /\ calls' = calls \cup WriteCalls(g_crash_info, OpenSucceeds(g_crash_file_path))
    /\ UNCHANGED <<variant, arch, prior, disp, dirArg, instIdx, faults, delivered, proc,
                   handling_crash, g_crash_info, passed, infoWriters, chained>>
    /\ UNCHANGED instVars /\ UNCHANGED sigVars

\* ---- call original handler
\* if (old->sa_sigaction) ... else if (old->sa_handler && != SIG_DFL && != SIG_IGN)
ChainCall(old) ==
    IF sa_sigaction(old) # NULL THEN "sa_sigaction"
    ELSE IF sa_handler(old) # NULL /\ sa_handler(old) # SIG_DFL /\ sa_handler(old) # SIG_IGN
         THEN "sa_handler"
    ELSE "none"

PriorOutcomes == {"returns", "terminates"}

Chain(t, outcome) ==
    /\ Alive /\ pc[t] = "chain"
    /\ LET old == g_old_handlers[hsig[t]] IN
        IF ChainCall(old) = "none"
        THEN /\ chained' = [chained EXCEPT ![t] = "skipped"]
             /\ pc' = [pc EXCEPT ![t] = StepAfter("chain")]
             /\ UNCHANGED <<proc, hsig, haddr>>
        ELSE /\ chained' = [chained EXCEPT ![t] = old]
             /\ IF old \in {AppHandler1, AppHandler3}
                THEN IF outcome = "returns"
                     THEN /\ pc' = [pc EXCEPT ![t] = StepAfter("chain")]
                          /\ UNCHANGED <<proc, hsig, haddr>>
                     ELSE /\ proc' = AppHandled(hsig[t])
                          /\ UNCHANGED <<pc, hsig, haddr>>
                ELSE IF old = CrashHandler
                THEN \* a plain call of signal_handler(sig, info, context)
                     /\ pc' = [pc EXCEPT ![t] = "guard"]
                     /\ UNCHANGED <<proc, hsig, haddr>>
                ELSE \* a call through the sentinel value: jump to address 1
                     NestedFault(t, "SIGSEGV", 1)
    /\ calls' = calls \cup {}
    /\ UNCHANGED <<variant, arch, prior, disp, dirArg, instIdx, faults, delivered,
                   handling_crash, g_crash_info, file, opens, passed, infoWriters>>
    /\ UNCHANGED instVars

\* the saved disposition put back in force before the re-raise
ResetDisposition_Restores(sig) == g_old_handlers[sig]

\* signal(sig, SIG_DFL);
ResetDisposition(sig) == SIG_DFL

\* the handler uninstalling itself: the saved disposition put back in
\* force and its table slot cleared
Reset_Uninstalls(t) ==
    /\ Alive /\ pc[t] = "reset"
    /\ disp' = [disp EXCEPT ![hsig[t]] = ResetDisposition(hsig[t])]
    /\ g_old_handlers' = [g_old_handlers EXCEPT ![hsig[t]] = SIG_DFL]
    /\ g_initialized' = FALSE
    /\ pc' = [pc EXCEPT ![t] = StepAfter("reset")]
    /\ calls' = calls \cup {"signal"}
    /\ UNCHANGED <<variant, arch, prior, dirArg, instIdx, faults, delivered, proc,
                   g_crash_file_path, installs>>
    /\ UNCHANGED crashVars /\ UNCHANGED sigVars

Reset(t) ==
    /\ Alive /\ pc[t] = "reset"
    /\ disp' = [disp EXCEPT ![hsig[t]] = ResetDisposition(hsig[t])]
    /\ pc' = [pc EXCEPT ![t] = StepAfter("reset")]
    /\ calls' = calls \cup {"signal"}
    /\ UNCHANGED <<variant, arch, prior, dirArg, instIdx, faults, delivered, proc>>
    /\ UNCHANGED instVars /\ UNCHANGED crashVars /\ UNCHANGED sigVars

\* the handler returning to the code it interrupted, nothing re-raised
Raise_Returns(t) ==
    /\ Alive /\ pc[t] = "raise"
    /\ pc' = [pc EXCEPT ![t] = "idle"]
    /\ calls' = calls \cup {}
    /\ UNCHANGED <<variant, arch, prior, disp, dirArg, instIdx, faults, delivered, proc>>
    /\ UNCHANGED instVars /\ UNCHANGED crashVars /\ UNCHANGED sigVars

\* raise(sig); the signal is blocked while its handler runs, so it is
\* delivered, under the disposition then active, as the handler returns.
RaisedSignal(sig) == sig

Raise(t) ==
    /\ Alive /\ pc[t] = "raise"
    /\ LET sig == RaisedSignal(hsig[t]) IN
        IF disp[sig] = CrashHandler
        THEN /\ pc' = [pc EXCEPT ![t] = "guard"]
             /\ hsig' = [hsig EXCEPT ![t] = sig]
             /\ UNCHANGED <<proc, haddr>>
        ELSE /\ proc' = IF disp[sig] \in {SIG_DFL, SIG_IGN}
                        THEN Killed(sig) ELSE AppHandled(sig)
             /\ UNCHANGED <<pc, hsig, haddr>>
    /\ calls' = calls \cup {"raise"}
    /\ UNCHANGED <<variant, arch, prior, disp, dirArg, instIdx, faults, delivered>>
    /\ UNCHANGED instVars /\ UNCHANGED crashVars

\* The actions of initialize and of signal_handler, on any thread.
Program ==
    \/ \E t \in Threads, dir \in CrashDirs : InitializeEnter(t, dir)
    \/ \E t \in Threads : InitializeAlready(t)
    \/ \E t \in Threads : InitializePath(t)
    \/ \E t \in Threads : InitializeSigaction(t)
    \/ \E t \in Threads : InitializeDone(t)
    \/ \E t \in Threads : GuardCheck(t)
    \/ \E t \in Threads : GuardSet(t)
    \/ \E t \in Threads : CaptureMemoryDump(t)
    \/ \E t \in Threads : WriteCrashToFile(t)
    \/ \E t \in Threads, outcome \in PriorOutcomes : Chain(t, outcome)
    \/ \E t \in Threads : Reset(t)
    \/ \E t \in Threads : Raise(t)

\* Any thread may fault at any time: concurrent faults.
ConcurrentFault ==
    \E t \in Threads, sig \in RaceSignals, addr \in RaceAddrs : Fault(t, sig, addr)

\* The application raises one fault in the life of the process, of any
\* handled signal at any address.
SingleFault ==
    /\ faults = 0
    /\ \E t \in Threads, sig \in Handled, addr \in FaultAddrs : Fault(t, sig, addr)

\* One fault in the life of the process, of a signal whose nested fault is
\* blocked or of one whose nested fault is not, at a null address or at one
\* with a readable window.
CaptureSignals == {"SIGSEGV", "SIGILL"}
CaptureAddrs == {0, MapLo + MEMORY_DUMP_SIZE}
CaptureFault ==
    /\ faults = 0
    /\ \E t \in Threads, sig \in CaptureSignals, addr \in CaptureAddrs :
          Fault(t, sig, addr)

\* The thread-name lookup of the faulting thread: t1 has a name and the
\* lookup of t2 fails; or any outcome on either thread.
FixedCollect == \E t \in Threads : Collect(t, t = "t1")
AnyCollect == \E t \in Threads, named \in BOOLEAN : Collect(t, named)

\* The unwinder walks the stack of the faulting thread.
RaceUnwind ==
    \E t \in Threads, offered \in RaceStacks : CaptureStackTrace(t, offered)
FewUnwind ==
    \E t \in Threads, offered \in {<<>>, ShortStack} : CaptureStackTrace(t, offered)
AnyUnwind ==
    \E t \in Threads, offered \in OfferedStacks : CaptureStackTrace(t, offered)

Next == Program \/ ConcurrentFault \/ FixedCollect \/ RaceUnwind
NextSingle == Program \/ SingleFault \/ FixedCollect \/ FewUnwind
NextCapture == Program \/ CaptureFault \/ AnyCollect \/ AnyUnwind

\* concurrent faults
Spec == Init /\ [][Next]_vars
\* one fault, of any handled signal at any address
SpecSingle == Init /\ [][NextSingle]_vars
\* one fault, with every outcome of the capture sub-steps
SpecCapture == Init /\ [][NextCapture]_vars
\* one fault in the enhanced build of each architecture
NextArch == Program \/ CaptureFault \/ FixedCollect \/ RaceUnwind
SpecArch == InitArch /\ [][NextArch]_vars
\* one fault, with a report of an earlier run at the report path
SpecStale == InitStale /\ [][NextCapture]_vars

\* The steps of the signal_handler invocation that runs on thread t.  The
\* handler runs synchronously on its thread and waits for nothing, so a
\* thread inside it keeps taking its steps while the process is alive.
HandlerStep(t) ==
    \/ GuardCheck(t)
    \/ GuardSet(t)
    \/ Collect(t, t = "t1")
    \/ CaptureMemoryDump(t)
    \/ \E offered \in RaceStacks : CaptureStackTrace(t, offered)
    \/ WriteCrashToFile(t)
    \/ \E outcome \in PriorOutcomes : Chain(t, outcome)
    \/ Reset(t)
    \/ Raise(t)

\* One fault in the life of the process, at a null address or at one whose
\* dump window runs past the mapped region.
LiveAddrs == {0, MapHi - 100}
LiveFault ==
    /\ faults = 0
    /\ \E t \in Threads, sig \in CaptureSignals, addr \in LiveAddrs :
          Fault(t, sig, addr)

NextLive == Program \/ LiveFault \/ FixedCollect \/ RaceUnwind
\* one fault, initialize calls on either thread at any time, and every
\* thread inside the handler scheduled fairly
SpecLive ==
    Init /\ [][NextLive]_vars /\ \A t \in Threads : WF_vars(HandlerStep(t))

\* ------------------------------------------------------------- properties
HandlerPcs == {"guard", "guard_set", "collect", "memdump", "unwind", "write",
               "chain", "reset", "raise"}
\* positions after the guard has been passed and the flag stored
CapturePcs == {"collect", "memdump", "unwind", "write", "chain", "reset", "raise"}

\* C1: in every reachable state the report file has been opened for writing
\* at most once, whatever faults were delivered.
C1_ReportOpenedAtMostOnce == opens <= 1

\* C2: a handler entered with handling_crash set exits the process with
\* status 1 in its next step, opening no file and chaining to nothing; a
\* handler past the guard has the flag set and has written nothing before
\* setting it; no step clears the flag.
C2_RecursionGuard ==
    [][ /\ \A t \in Threads :
              (GuardCheck(t) /\ handling_crash # 0) =>
                  /\ proc' = Exited(1)
                  /\ opens' = opens /\ file' = file
                  /\ chained' = chained /\ g_crash_info' = g_crash_info
        /\ \A t \in Threads :
              (pc[t] = "guard" /\ handling_crash # 0) => pc'[t] = "guard"
        /\ \A t \in Threads :
              pc'[t] \in CapturePcs => (handling_crash' = 1 /\ t \in passed')
        /\ infoWriters' \subseteq passed'
        /\ (handling_crash # 0 => handling_crash' # 0)
      ]_vars

\* a handler was entered with the flag set by an earlier one, and exited
C2_Witness ==
    /\ proc = Exited(1)
    /\ \E t \in Threads : pc[t] = "guard" /\ t \notin passed
    /\ \E u \in Threads : u \in passed /\ pc[u] \in CapturePcs

\* C3: of two threads faulting concurrently at most one passes the guard,
\* and only that one writes the crash info and opens the report file.
C3_OnlyOneThreadPasses ==
    /\ Cardinality(passed) <= 1
    /\ Cardinality(infoWriters) <= 1
    /\ opens <= 1

\* no initialize call is between its g_initialized test and its return
NoInstallRunning ==
    \A t \in Threads : pc[t] \notin {"init_path", "init_sigaction", "init_done"}

\* signal sig has been reset to the default by a handler about to re-raise it
ResetByHandler(sig, pcs, sigs) ==
    \E t \in Threads : pcs[t] = "raise" /\ sigs[t] = sig

\* C4: a call of initialize made while g_initialized is set goes to its
\* return without changing the saved-disposition table, the report path, the
\* flag or any active disposition; so once an install has completed and none
\* is running, table and path stay as they are and a disposition changes only
\* where a handler resets it.
C4_InstallIdempotent ==
    [][ /\ \A t \in Threads :
              (pc[t] = "idle" /\ g_initialized /\ pc'[t] \notin {"idle", "guard"}) =>
                  /\ pc'[t] = "init_already"
                  /\ UNCHANGED <<g_old_handlers, g_crash_file_path, disp, g_initialized>>
        /\ \A t \in Threads :
              (pc[t] = "init_already" /\ pc'[t] # "init_already") =>
                  /\ pc'[t] = "idle"
                  /\ UNCHANGED <<g_old_handlers, g_crash_file_path, disp, g_initialized>>
        /\ (g_initialized /\ NoInstallRunning) =>
                  /\ UNCHANGED <<g_old_handlers, g_crash_file_path, g_initialized>>
                  /\ NoInstallRunning'
                  /\ \A s \in AllSignals :
                        disp'[s] = disp[s] \/ ResetByHandler(s, pc', hsig')
      ]_vars

\* a second call is at its "already initialized" return after one install
C4_Witness ==
    /\ g_initialized /\ installs = 1
    /\ \E t \in Threads : pc[t] = "init_already"
    /\ \A s \in Handled : g_old_handlers[s] = prior[s] /\ disp[s] = CrashHandler

\* C5: every step that stores into the saved-disposition table or installs
\* the crash handler does so for a handled signal, stores the disposition
\* that was active just before, and makes the crash handler active; after
\* the first install has completed the table holds, for each handled signal,
\* the disposition the application had set, the crash handler is active for
\* it (until a handler resets it to re-raise), and signals outside the set
\* keep their disposition.
C5_InstallSavesPrior ==
    [][ /\ \A s \in AllSignals :
              (g_old_handlers'[s] # g_old_handlers[s]
                 \/ (disp'[s] # disp[s] /\ disp'[s] = CrashHandler)) =>
                  /\ s \in Handled
                  /\ g_old_handlers'[s] = disp[s]
                  /\ disp'[s] = CrashHandler
        /\ \A s \in OtherSignals :
              disp'[s] = prior[s] /\ g_old_handlers'[s] = SIG_DFL
        /\ (g_initialized' /\ installs' = 1) =>
              \A s \in Handled :
                  /\ g_old_handlers'[s] = prior[s]
                  /\ disp'[s] = CrashHandler \/ ResetByHandler(s, pc', hsig')
      ]_vars

\* the first install has completed over dispositions that were not all default
C5_Witness ==
    /\ g_initialized /\ installs = 1
    /\ \A s \in Handled : g_old_handlers[s] = prior[s] /\ disp[s] = CrashHandler
    /\ \E s \in Handled : prior[s] = AppHandler3
    /\ \E s \in Handled : prior[s] = SIG_IGN
    /\ \A s \in OtherSignals : disp[s] = prior[s]

\* C6: the handler calls the saved prior disposition exactly when it is a
\* real handler: the default and the ignore sentinel are never called, and
\* a real handler is never skipped.
C6_ChainOnlyRealHandlers ==
    \A t \in Threads :
        /\ chained[t] \notin {SIG_DFL, SIG_IGN}
        /\ (chained[t] = "skipped" /\ pc[t] = "reset") =>
               g_old_handlers[hsig[t]] \notin RealHandlers

\* C7: a handler that has returned from chaining sets the disposition of its
\* signal to the default and re-raises that signal, and the re-raise ends
\* the process with that signal.
C7_Terminate ==
    [][ \A t \in Threads :
          /\ Reset(t) => (disp'[hsig[t]] = SIG_DFL /\ pc'[t] = "raise")
          /\ Raise(t) => proc' = Killed(hsig[t])
      ]_vars

\* the byte range the memory dump covers around addr
Window(addr) == (addr - MEMORY_DUMP_SIZE)..(addr + MEMORY_DUMP_SIZE - 1)

\* C8: when the process has ended after one fault of a handled signal that
\* was delivered to the installed handler with a writable report path,
\* the report file was opened exactly once and holds that signal's name,
\* that fault address and a frame count of at most the maximum depth.
C8_OneReportPerFault ==
    \A t \in Threads :
        ( /\ ~Alive /\ faults = 1 /\ installs = 1 /\ g_initialized
          /\ delivered[t].sig \in Handled /\ pc[t] \in HandlerPcs
          /\ Writable(g_crash_file_path) ) =>
            /\ opens = 1 /\ file.exists
            /\ file.report.signal_name = delivered[t].sig
            /\ file.report.fault_address = delivered[t].addr
            /\ file.report.frame_count <= MaxFrames

\* C9: capture_memory_dump on a non-null fault address whose window has an
\* unmapped byte ends with memory_readable false, without a fault, and the
\* handler goes on to unwinding.
C9_MemoryDumpFaultTolerant ==
    [][ \A t \in Threads :
          ( /\ CaptureMemoryDump(t)
            /\ g_crash_info.fault_address # 0
            /\ \E a \in Window(g_crash_info.fault_address) : ~Mapped(a) ) =>
              /\ pc'[t] = "unwind"
              /\ g_crash_info'.memory_readable = FALSE
              /\ proc' = proc
      ]_vars

\* the buffers of info hold the bytes around its fault address
BuffersMatch(info) ==
    \A i \in 0..(MEMORY_DUMP_SIZE - 1) :
        /\ info.memory_before[i] = ByteAt(info.fault_address - MEMORY_DUMP_SIZE + i)
        /\ info.memory_after[i] = ByteAt(info.fault_address + i)

\* C10: capture_memory_dump on a non-null fault address whose whole window is
\* mapped sets memory_readable and fills both buffers with the bytes of the
\* window; every step that writes the crash info leaves memory_readable set
\* only with both buffers complete and, with a null fault address, leaves it
\* false and both buffers zero (the zero-filled initial record has it false).
C10_MemoryDumpContent ==
    [][ /\ \A t \in Threads :
              ( /\ CaptureMemoryDump(t)
                /\ g_crash_info.fault_address # 0
                /\ \A a \in Window(g_crash_info.fault_address) : Mapped(a) ) =>
                  /\ g_crash_info'.memory_readable
                  /\ BuffersMatch(g_crash_info')
                  /\ pc'[t] = "unwind"
        /\ (g_crash_info' # g_crash_info /\ g_crash_info'.memory_readable) =>
              /\ g_crash_info'.fault_address # 0
              /\ BuffersMatch(g_crash_info')
        /\ (g_crash_info' # g_crash_info /\ g_crash_info'.fault_address = 0) =>
              /\ ~g_crash_info'.memory_readable
              /\ g_crash_info'.memory_before = ZeroBuf
              /\ g_crash_info'.memory_after = ZeroBuf
      ]_vars

\* a dump of a wholly mapped window has completed, with non-zero content
C10_Witness ==
    /\ g_crash_info.memory_readable
    /\ g_crash_info.fault_address = MapLo + MEMORY_DUMP_SIZE
    /\ g_crash_info.memory_before # ZeroBuf
    /\ \E t \in Threads : pc[t] = "unwind"

\* what the chaining step records for a saved disposition
ChainTarget(old) == IF ChainCall(old) = "none" THEN "skipped" ELSE old

\* C11: when the report file cannot be opened, write_crash_to_file leaves the
\* file as it was and returns to the handler, which goes on to the chaining
\* step; chaining, the reset to the default and the re-raise are then taken
\* as after a successful write: the handler chains to the saved disposition
\* of its signal, sets the default and reaches the re-raise.
C11_OpenFailureStillChains ==
    [][ \A t \in Threads :
          /\ (WriteCrashToFile(t) /\ ~Writable(g_crash_file_path)) =>
                 /\ file' = file /\ opens' = opens
                 /\ g_crash_info' = g_crash_info
                 /\ proc' = proc
                 /\ pc'[t] = "chain"
          /\ WriteCrashToFile(t) => pc'[t] = "chain"
          /\ (pc[t] = "chain" /\ pc'[t] # "chain") =>
                 /\ chained'[t] = ChainTarget(g_old_handlers[hsig[t]])
                 /\ pc'[t] \in {"reset", "guard"}
          /\ (pc[t] = "reset" /\ pc'[t] # "reset") =>
                 /\ pc'[t] = "raise"
                 /\ disp'[hsig[t]] = SIG_DFL
      ]_vars

\* a handler whose open failed has chained to an application handler and is
\* at its re-raise, the file never created
C11_Witness ==
    /\ g_crash_file_path = CrashFilePath("/readonly")
    /\ installs = 1 /\ opens = 0 /\ ~file.exists
    /\ \E t \in Threads :
          /\ pc[t] = "raise"
          /\ chained[t] \in {AppHandler1, AppHandler3}
          /\ disp[hsig[t]] = SIG_DFL

\* the stack-trace lines of a file content: those printed with a frame format
IsFrameLine(line) == line.fmt \in {ResolvedFormat, UnresolvedFormat}
FrameLines(content) == SelectSeq(content, IsFrameLine)

\* C12: no failure of a capture sub-step stops the report.  A failed
\* thread-name lookup stores "Thread-<tid>" and the handler goes on; the
\* unwinder offering nothing, or fewer frames than the maximum, leaves the
\* handler at the write step with the shorter list; and a written report
\* carries the stored thread name and frame count in its header and one line
\* per stored frame, a frame dladdr cannot resolve printed as "pc <addr> ???"
\* and a missing object or symbol name printed as "???".
C12_CaptureFailureKeepsReport ==
    [][ \A t \in Threads :
          /\ \A named \in BOOLEAN :
                Collect(t, named) =>
                    /\ pc'[t] \in {"memdump", "unwind"}
                    /\ proc' = proc
                    /\ g_crash_info'.tid = gettid(t)
                    /\ g_crash_info'.thread_name =
                          IF named THEN <<ThreadNames[t]>> ELSE <<"Thread-", gettid(t)>>
          /\ pc[t] = "unwind" =>
                \A offered \in OfferedStacks :
                    CaptureStackTrace(t, offered) =>
                        /\ pc'[t] = "write"
                        /\ proc' = proc
                        /\ g_crash_info'.frame_count <= Len(offered)
                        /\ g_crash_info'.frame_count = Len(g_crash_info'.stack_frames)
                        /\ g_crash_info'.thread_name = g_crash_info.thread_name
          /\ (WriteCrashToFile(t) /\ Writable(g_crash_file_path)) =>
                \A lines \in {FrameLines(file'.content)}, head \in {file'.content[1]} :
                   /\ pc'[t] = "chain"
                   /\ head.fmt = HeaderFormat
                   /\ head.args[6] = g_crash_info.thread_name
                   /\ head.args[10] = g_crash_info.frame_count
                   /\ Len(lines) = g_crash_info.frame_count
                   /\ \A k \in 1..Len(lines) :
                        LET frame == g_crash_info.stack_frames[k]
                            sym == dladdr(frame)
                        IN /\ lines[k].args[1] = k - 1
                           /\ lines[k].args[2] = frame
                           /\ ~sym.ok <=> lines[k].fmt = UnresolvedFormat
                           /\ (sym.ok /\ sym.dli_fname = NoName) => lines[k].args[3] = "???"
                           /\ (sym.ok /\ sym.dli_sname = NoName) => lines[k].args[4] = "???"
                           /\ (sym.ok /\ sym.dli_sname # NoName) =>
                                  lines[k].args[4] = sym.dli_sname
      ]_vars

\* a report was written after the thread-name lookup failed, the unwinder
\* skipped a frame of the three it offered, and one of the two stored frames
\* has no symbol
C12_Witness ==
    /\ file.exists
    /\ \E t \in Threads :
          /\ pc[t] = "chain" /\ file.by = t
          /\ file.content[1].args[6] = <<"Thread-", gettid(t)>>
    /\ file.report.frame_count = 2
    /\ Len(FrameLines(file.content)) = 2
    /\ \E k \in 1..2 : FrameLines(file.content)[k].args[4] = "???"

\* a report was written with no frame at all
C12_WitnessNoFrames ==
    /\ file.exists /\ file.report.frame_count = 0
    /\ Len(FrameLines(file.content)) = 0
    /\ Len(file.content) >= 2

\* the steps of a handler invocation in the order of the claim, and in the
\* order with memory inspection ahead of stack unwinding
UnwindThenMemory ==
    <<"guard", "guard_set", "collect", "unwind", "memdump", "write", "chain",
      "reset", "raise">>
MemoryThenUnwind ==
    <<"guard", "guard_set", "collect", "memdump", "unwind", "write", "chain",
      "reset", "raise">>
\* every move of a handler from one step to another, other than the entry of
\* a new invocation at the guard, goes forward in order
StepsFollow(order) ==
    \A t \in Threads :
        ( /\ pc[t] \in HandlerPcs /\ pc'[t] # pc[t]
          /\ pc'[t] # "guard" ) =>
            /\ pc'[t] \in HandlerPcs
            /\ IndexIn(order, pc'[t]) > IndexIn(order, pc[t])

\* C13 as stated: a handler invocation takes its steps in the order guard
\* check, context capture, stack unwinding, memory inspection, report
\* serialization, chaining, reset and re-raise.
C13_StepOrderAsClaimed == [][StepsFollow(UnwindThenMemory)]_vars

\* C13 amended: a handler invocation takes its steps in the order guard
\* check, context capture, memory inspection (enhanced build only), stack
\* unwinding, report serialization, chaining, reset and re-raise; each step
\* is followed by the next one of its build, none is skipped or repeated, and
\* a handler enters its first step only from application code, from a fault
\* inside a step, from chaining or from the re-raise.
C13_StepOrder ==
    [][ /\ StepsFollow(MemoryThenUnwind)
        /\ \A t \in Threads :
              (pc[t] \in HandlerPcs /\ pc'[t] # pc[t] /\ pc'[t] # "guard") =>
                  LET next == IndexIn(MemoryThenUnwind, pc[t]) + 1 IN
                  pc'[t] = IF variant = "basic" /\ MemoryThenUnwind[next] = "memdump"
                           THEN MemoryThenUnwind[next + 1]
                           ELSE MemoryThenUnwind[next]
        /\ \A t \in Threads :
              (pc'[t] = "guard" /\ pc[t] # "guard") =>
                  pc[t] \in {"idle", "memdump", "chain", "raise"}
      ]_vars

\* an invocation of the enhanced build, having read the memory window and
\* then walked the stack, is at its re-raise
C13_Witness ==
    /\ variant = "enhanced"
    /\ \E t \in Threads :
          /\ pc[t] = "raise" /\ file.by = t
          /\ g_crash_info.memory_readable
          /\ g_crash_info.frame_count > 0

\* the program counter and the general-purpose registers of the machine
\* context of thread t
ContextPc(t) ==
    LET uc == MachineContext(t) IN
    CASE arch = "arm64" -> uc.pc
      [] arch = "arm" -> uc.arm_pc
      [] arch = "x86" -> uc.gregs["REG_EIP"]
      [] arch = "x86_64" -> uc.gregs["REG_RIP"]
ContextGprs(t) ==
    LET uc == MachineContext(t) IN
    CASE arch = "arm64" -> {uc.regs[i] : i \in 0..30}
      [] arch = "arm" ->
           {uc.arm_r0, uc.arm_r1, uc.arm_r2, uc.arm_r3, uc.arm_r4, uc.arm_r5,
            uc.arm_r6, uc.arm_r7, uc.arm_r8, uc.arm_r9, uc.arm_r10, uc.arm_fp,
            uc.arm_ip, uc.arm_sp, uc.arm_lr, uc.arm_pc}
      [] arch = "x86" ->
           {uc.gregs[r] : r \in NamesOf(X86Gregs) \ {"REG_EIP"}}
      [] arch = "x86_64" ->
           {uc.gregs[r] : r \in NamesOf(X64Gregs) \ {"REG_RIP"}}
\* every value a register snapshot holds
SnapshotValues(regs) ==
    {regs.pc, regs.sp, regs.lr} \cup
    CASE arch = "arm64" -> {regs.x[i] : i \in 0..30} \cup {regs.cpsr}
      [] arch = "arm" -> {regs.r[i] : i \in 0..15} \cup {regs.cpsr}
      [] arch = "x86" ->
           {regs.eax, regs.ebx, regs.ecx, regs.edx, regs.esi, regs.edi,
            regs.ebp, regs.esp, regs.eip}
      [] arch = "x86_64" ->
           {regs.rax, regs.rbx, regs.rcx, regs.rdx, regs.rsi, regs.rdi,
            regs.rbp, regs.rsp, regs.rip, regs.r8, regs.r9, regs.r10,
            regs.r11, regs.r12, regs.r13, regs.r14, regs.r15}
\* the arguments printed between the title of the register block and the
\* title of the stack trace
PrintedRegisters(content) ==
    LET from == CHOOSE k \in 1..Len(content) : content[k].fmt = "REGISTERS:\n"
        to == CHOOSE k \in 1..Len(content) : content[k].fmt = "STACK TRACE:\n"
    IN UNION {{content[k].args[j] : j \in 1..Len(content[k].args)} :
                 k \in (from + 1)..(to - 1)}

\* C14: in a report written by the enhanced build, whatever the architecture,
\* the register block prints the program counter of the faulting thread's
\* machine context, and the register snapshot holds every general-purpose
\* register of that context.
C14_RegistersReported ==
    \A t \in Threads :
        (variant = "enhanced" /\ file.exists /\ file.by = t) =>
            /\ ContextPc(t) \in PrintedRegisters(file.content)
            /\ ContextGprs(t) \subseteq SnapshotValues(file.report.registers)

\* the positions in a file content of the lines printed with format fmt
Positions(content, fmt) == {k \in 1..Len(content) : content[k].fmt = fmt}

\* the lines from position at on are a hex dump of buf: 16 rows, each an
\* offset (0, 16, .., 240), the 16 bytes from that offset on, a newline
IsHexDump(content, at, buf) ==
    /\ Len(content) >= at + 16 * 18 - 1
    /\ \A r \in 0..15 :
          LET row == at + r * 18 IN
          /\ content[row] = Line("%04x: ", <<r * 16>>)
          /\ \A j \in 0..15 :
                content[row + 1 + j] = Line("%02x ", <<buf[r * 16 + j]>>)
          /\ content[row + 17] = Line("\n", <<>>)

C15_WitnessNoDump ==
    /\ file.exists /\ variant = "enhanced"
    /\ ~file.report.memory_readable
    /\ file.report.frame_count > 0
    /\ Positions(file.content, "\nMEMORY DUMP:\n") = {}

\* The functions POSIX.1 lists as async-signal-safe, as far as the handler
\* calls them, with the bare system call gettid and with pthread_self.  Not
\* in the list: the stdio formatter snprintf, the dynamic linker's dladdr,
\* the unwinder, pthread_getname_np and the Android logger.
AsyncSignalSafe ==
    {"_exit", "open", "write", "close", "signal", "raise", "getpid", "gettid",
     "time", "memset", "strncpy", "pthread_self"}

\* C16: every library function a handler has called between its entry and
\* its re-raise is async-signal-safe.
C16_OnlySignalSafeCalls == calls \subseteq AsyncSignalSafe

\* the lines of a file content
LinesOf(content) == {content[k] : k \in 1..Len(content)}

\* C17: a write_crash_to_file whose open succeeds leaves in the file exactly
\* the report of the crash info it was given: one header, that of the fault
\* being handled, as the first line, and no line of what the file held
\* before; a file a handler has written holds no line of an earlier run, and
\* a file no handler could open is left as it was.
C17_ReportFileFresh ==
    [][ /\ \A t \in Threads :
              (WriteCrashToFile(t) /\ Writable(g_crash_file_path)) =>
                  /\ file'.by = t
                  /\ Positions(file'.content, HeaderFormat) = {1}
                  /\ file'.content[1].args[1] = g_crash_info.signal_name
                  /\ file'.content[1].args[5] = g_crash_info.fault_address
                  /\ file'.content[1].args[8] = gettid(t)
                  /\ StaleLine \notin LinesOf(file'.content)
                  /\ Len(file'.content) = Len(Serialize(g_crash_info))
        /\ file'.by \in Threads => StaleLine \notin LinesOf(file'.content)
        /\ file' # file => \E t \in Threads : WriteCrashToFile(t)
      ]_vars

\* a handler has written its report over a report of an earlier run
C17_Witness ==
    /\ file.exists /\ file.truncated
    /\ file.by \in Threads /\ pc[file.by] = "chain"
    /\ opens = 1
    /\ file.content[1].args[1] = hsig[file.by]
    /\ StaleLine \notin LinesOf(file.content)

\* C18 as stated: isInitialized is false initially, true only while the
\* crash handler is the active disposition of all six handled signals, and
\* stays true once true.
C18_InitializedAsClaimed ==
    /\ ~isInitialized
    /\ [][ /\ isInitialized' => \A s \in Handled : disp'[s] = CrashHandler
           /\ isInitialized => isInitialized'
         ]_vars

\* C18 amended: isInitialized is false initially and as long as no call of
\* initialize has completed its six installs; it is true only in states
\* where the crash handler has been installed for all six handled signals
\* and is the active disposition of each, but for a signal that a handler
\* has reset to the default and is about to re-raise; once true it stays
\* true.
C18_InitializedMeansInstalled ==
    /\ ~isInitialized
    /\ [][ /\ isInitialized' =>
                 /\ Cardinality(Handled) = 6
                 /\ \A s \in Handled :
                       disp'[s] = CrashHandler \/ ResetByHandler(s, pc', hsig')
           /\ (isInitialized' /\ ~isInitialized) =>
                 \E t \in Threads : pc[t] = "init_done" /\ pc'[t] = "idle"
           /\ isInitialized => isInitialized'
         ]_vars

\* isInitialized is true while a handler has reset its signal to the default
\* and has not yet re-raised it
C18_Witness ==
    /\ isInitialized /\ Alive
    /\ \E t \in Threads :
          /\ pc[t] = "raise" /\ disp[hsig[t]] = SIG_DFL
          /\ \A s \in Handled \ {hsig[t]} : disp[s] = CrashHandler

NonZero(a) == a # 0
Min(a, b) == IF a <= b THEN a ELSE b
\* the position in offered of its n-th non-zero entry
NthNonZero(offered, n) ==
    CHOOSE k \in 1..Len(offered) :
        offered[k] # 0 /\ Len(SelectSeq(SubSeq(offered, 1, k), NonZero)) = n

\* C19: for every stack the unwinder offers, capture_stack_trace returns the
\* smaller of max_frames and the number of offered frames with a non-zero
\* pc, and has stored exactly that many addresses: the first non-zero ones,
\* in the order offered; it asks the unwinder to stop exactly when a frame is
\* offered after max_frames addresses have been stored.
C19_UnwindBounded ==
    [][ \A t \in Threads :
          pc[t] = "unwind" =>
            \A offered \in OfferedStacks :
              CaptureStackTrace(t, offered) =>
                LET nz == SelectSeq(offered, NonZero)
                    n == Min(Len(nz), MaxFrames)
                    state == capture_stack_trace(offered, MaxFrames)
                IN /\ g_crash_info'.frame_count = n
                   /\ g_crash_info'.frame_count <= MaxFrames
                   /\ Len(g_crash_info'.stack_frames) <= MaxFrames
                   /\ g_crash_info'.stack_frames = SubSeq(nz, 1, n)
                   /\ state.stopped <=>
                        /\ Len(nz) >= MaxFrames
                        /\ Len(offered) > NthNonZero(offered, MaxFrames)
      ]_vars

\* the unwinder offered more frames than max_frames and the walk was cut at
\* max_frames
C19_Witness ==
    /\ g_crash_info.frame_count = MaxFrames
    /\ Len(g_crash_info.stack_frames) = MaxFrames
    /\ g_crash_info.stack_frames[MaxFrames] = MapLo + MaxFrames
    /\ \E t \in Threads : pc[t] = "write"

\* a frame with a zero pc was skipped
C19_WitnessZeroSkipped ==
    /\ g_crash_info.stack_frames = <<MapLo + 8, MapLo + 24>>
    /\ g_crash_info.frame_count = 2
    /\ \E t \in Threads : pc[t] = "write"

\* a step taken by a handler invocation: a thread inside signal_handler
\* moves, or ends the process
HandlerMoves ==
    \E t \in Threads :
        /\ pc[t] \in HandlerPcs
        /\ pc'[t] # pc[t] \/ proc' # proc

\* C20: no step of a handler invocation, whether it passes the guard or is
\* denied, changes the report path, the saved-disposition table or the
\* initialized flag; a denied invocation changes the guard flag and the
\* crash info neither; the guard flag changes only where a handler stores 1
\* after its test, and the crash info only in the capture steps of a handler
\* that has passed the guard.
C20_HandlerFrame ==
    [][ /\ HandlerMoves =>
              UNCHANGED <<g_crash_file_path, g_old_handlers, g_initialized>>
        /\ \A t \in Threads :
              (GuardCheck(t) /\ handling_crash # 0) =>
                  UNCHANGED <<handling_crash, g_crash_info>>
        /\ handling_crash' # handling_crash =>
              /\ handling_crash' = 1
              /\ \E t \in Threads : pc[t] = "guard_set" /\ pc'[t] # pc[t]
        /\ g_crash_info' # g_crash_info =>
              \E t \in Threads :
                  /\ pc[t] \in {"collect", "memdump", "unwind"}
                  /\ t \in passed
                  /\ pc'[t] # pc[t] \/ proc' # proc
      ]_vars

\* a handler has run to its re-raise with table, path and flag as the
\* install left them
C20_Witness ==
    /\ g_initialized /\ installs = 1
    /\ g_crash_file_path = CrashFilePath("/data/app/files")
    /\ \A s \in Handled : g_old_handlers[s] = prior[s]
    /\ handling_crash = 1
    /\ g_crash_info # ZeroInfo
    /\ \E t \in Threads : pc[t] = "raise" /\ proc = Killed(hsig[t])

\* C21 as stated: when the handler chained to a real previous handler that
\* returned, its re-raise runs that previous handler a second time.
C21_ReraiseRunsPriorAgain ==
    [][ \A t \in Threads :
          (Raise(t) /\ chained[t] \in RealHandlers) =>
              proc' = AppHandled(hsig[t])
      ]_vars

\* C21: a handler invocation calls the saved previous handler at most once;
\* after a real previous handler has returned, the disposition of the signal
\* at the re-raise is the default or signal_handler itself, never the
\* previous handler, so the re-raise kills the process with the signal or
\* re-enters signal_handler with the guard flag set, and no step of the
\* invocation hands the signal to an application handler again.
C21_PriorRunsOnce ==
    [][ \A t \in Threads :
          /\ (\E outcome \in PriorOutcomes : Chain(t, outcome)) =>
                 chained[t] = "none"
          /\ (pc[t] \in {"reset", "raise"} /\ chained[t] \in RealHandlers) =>
                 /\ chained'[t] = chained[t]
                 /\ pc[t] = "raise" => disp[hsig[t]] \in {SIG_DFL, CrashHandler}
                 /\ Raise(t) =>
                       \/ proc' = Killed(hsig[t])
                       \/ pc'[t] = "guard" /\ handling_crash # 0 /\ proc' = proc
                 /\ (Reset(t) \/ Raise(t)) => proc'.state # "app_handler"
      ]_vars

\* a real previous handler was called and returned, and the re-raise that
\* followed killed the process under the default disposition
C21_Witness ==
    \E t \in Threads :
        /\ pc[t] = "raise"
        /\ chained[t] \in RealHandlers
        /\ g_old_handlers[hsig[t]] = chained[t]
        /\ disp[hsig[t]] = SIG_DFL
        /\ proc = Killed(hsig[t])

\* the process has ended: _exit, a signal under the default action, or a
\* chained previous handler that took the process over instead of returning
Terminated ==
    \/ proc.state \in {"exited", "killed"}
    \/ \E u \in Threads :
          /\ pc[u] = "chain"
          /\ chained[u] \in RealHandlers
          /\ proc = AppHandled(hsig[u])

\* C22: a thread that has entered signal_handler never returns to
\* application code, and the process ends: every step of the thread keeps it
\* inside the handler, the process ends only by _exit(1) at the guard, by a
\* signal under the default action (the re-raised signal, or a further fault
\* on the blocked signal) or inside a chained previous handler that does not
\* return, and under fair scheduling of the handler's thread the end comes.
C22_Terminates ==
    /\ [][ \A t \in Threads :
             /\ pc[t] \in HandlerPcs => pc'[t] \in HandlerPcs
             /\ (pc[t] \in HandlerPcs /\ proc' # proc) =>
                   \/ proc' = Exited(1) /\ handling_crash # 0
                   \/ proc'.state = "killed"
                   \/ proc'.state = "app_handler" /\ \E u \in Threads : pc[u] = "chain"
         ]_vars
    /\ \A t \in Threads : (pc[t] \in HandlerPcs) ~> Terminated

\* a handler that had chained was entered again, by its own re-raise or by
\* the chained call, and the guard ended the process
C22_Witness ==
    /\ proc = Exited(1)
    /\ handling_crash = 1
    /\ \E t \in Threads : pc[t] = "guard" /\ chained[t] # "none"

\* a fault inside the handler on the signal being handled ended the process
C22_WitnessNestedFault ==
    /\ proc = Killed("SIGSEGV")
    /\ \E t \in Threads : pc[t] \in {"memdump", "chain"} /\ hsig[t] = "SIGSEGV"

\* C23: in every reachable state no entry of the saved-disposition table is
\* this file's own signal_handler, and no handler invocation has chained to
\* signal_handler.
C23_NoSelfChaining ==
    /\ \A s \in AllSignals : g_old_handlers[s] # CrashHandler
    /\ \A t \in Threads : chained[t] # CrashHandler

\* ---- the length of each write
\* strlen of the strings the report prints; LongSymbol stands for a mangled
\* name of 1100 characters and LongPath for a path of 600
StrLen(str) ==
    CASE str = "SIGSEGV" -> 7 [] str = "SIGABRT" -> 7 [] str = "SIGFPE" -> 6
      [] str = "SIGILL" -> 6 [] str = "SIGBUS" -> 6 [] str = "SIGTRAP" -> 7
      [] str = "UNKNOWN" -> 7
      [] str = "Segmentation fault (invalid memory access)" -> 42
      [] str = "Abort signal (abnormal termination)" -> 35
      [] str = "Floating point exception" -> 24
      [] str = "Illegal instruction" -> 19
      [] str = "Bus error (invalid memory alignment)" -> 36
      [] str = "Trace/breakpoint trap" -> 21
      [] str = "Unknown signal" -> 14
      [] str = "libapp.so" -> 9 [] str = "crash_fn" -> 8 [] str = "???" -> 3
      [] str = "main" -> 4 [] str = "worker" -> 6 [] str = "Thread-" -> 7
      [] str = LongSymbol -> 1100
      [] str = LongPath -> 600
      [] OTHER -> 0

\* the number of each handled signal on Android
SignalNumber(sig) ==
    CASE sig = "SIGSEGV" -> 11 [] sig = "SIGABRT" -> 6 [] sig = "SIGFPE" -> 8
      [] sig = "SIGILL" -> 4 [] sig = "SIGBUS" -> 7 [] sig = "SIGTRAP" -> 5
      [] OTHER -> 0

Max(a, b) == IF a >= b THEN a ELSE b

RECURSIVE Digits(_, _)
\* the number of digits of n >= 0 written in the given base
Digits(n, base) == IF n < base THEN 1 ELSE 1 + Digits(n \div base, base)

\* the characters one conversion prints for its argument
ConvLen(conv, arg) ==
    CASE conv = "%s" -> StrLen(arg)
      [] conv = "%s thread_name" ->
            IF arg = <<>> THEN 0
            ELSE IF Len(arg) = 1 THEN StrLen(arg[1])
            ELSE StrLen(arg[1]) + Digits(arg[2], 10)
      [] conv = "%d signal" -> Digits(SignalNumber(arg), 10)
      [] conv \in {"%d", "%ld", "%zu"} -> Digits(arg, 10)
      [] conv \in {"%02zu", "%-2d"} -> Max(2, Digits(arg, 10))
      [] conv = "%03zu" -> Max(3, Digits(arg, 10))
      [] conv = "%p" -> 2 + Digits(arg, 16)
      [] conv = "%016lx" -> Max(16, Digits(arg, 16))
      [] conv = "%08lx" -> Max(8, Digits(arg, 16))
      [] conv = "%04x" -> Max(4, Digits(arg, 16))
      [] conv = "%02x" -> Max(2, Digits(arg, 16))

\* Each format of write_crash_to_file: its literal characters and its
\* conversions, in the order of its arguments.
FormatOf(fmt) ==
    CASE fmt = HeaderFormat ->
           [literal |-> IF variant = "basic" THEN 104 ELSE 105,
            convs |-> <<"%s", "%d signal", "%s", "%d", "%p", "%s thread_name",
                        "%d", "%d", "%ld", "%zu">>]
      [] fmt = ResolvedFormat ->
           [literal |-> 11,
            convs |-> <<IF variant = "basic" THEN "%02zu" ELSE "%03zu",
                        "%p", "%s", "%s", "%p">>]
      [] fmt = UnresolvedFormat ->
           [literal |-> 10,
            convs |-> <<IF variant = "basic" THEN "%02zu" ELSE "%03zu", "%p">>]
      [] fmt = "  pc:   %016lx\n  sp:   %016lx\n  lr:   %016lx\n  cpsr: %016lx\n" ->
           [literal |-> 36, convs |-> <<"%016lx", "%016lx", "%016lx", "%016lx">>]
      [] fmt = "  x%-2d:  %016lx\n" ->
           [literal |-> 7, convs |-> <<"%-2d", "%016lx">>]
      [] fmt = "  pc:   %08lx\n  sp:   %08lx\n  lr:   %08lx\n  cpsr: %08lx\n" ->
           [literal |-> 36, convs |-> <<"%08lx", "%08lx", "%08lx", "%08lx">>]
      [] fmt = "  r%-2d:  %08lx\n" ->
           [literal |-> 7, convs |-> <<"%-2d", "%08lx">>]
      [] fmt = "Before fault address (%p - 256):\n" ->
           [literal |-> 31, convs |-> <<"%p">>]
      [] fmt = "\nAfter fault address (%p):\n" ->
           [literal |-> 25, convs |-> <<"%p">>]
      [] fmt = "%04x: " -> [literal |-> 2, convs |-> <<"%04x">>]
      [] fmt = "%02x " -> [literal |-> 1, convs |-> <<"%02x">>]

RECURSIVE ConvsLen(_, _, _)
\* the characters the first k conversions print
ConvsLen(convs, args, k) ==
    IF k = 0 THEN 0
    ELSE ConvLen(convs[k], args[k]) + ConvsLen(convs, args, k - 1)

\* char buffer[512] / char buffer[1024]
BufferSize == IF variant = "basic" THEN 512 ELSE 1024

\* snprintf(buffer, size, fmt, args...): the characters stored before the
\* terminating null, and the value returned, which is the length of the whole
\* formatted text whether or not it fitted
snprintf(size, line) ==
    LET f == FormatOf(line.fmt)
        whole == f.literal + ConvsLen(f.convs, line.args, Len(f.convs))
    IN [stored |-> Min(whole, size - 1), ret |-> whole]

\* len = snprintf(buffer, sizeof(buffer), ...); write(fd, buffer, len);
\* the count the write call passes
WriteLength(line) == snprintf(BufferSize, line).ret

\* the writes of a report that go through the local buffer
BufferWrites(content) == SelectSeq(content, LAMBDA line : line.args # <<>>)

\* C24: every write of the report that goes through the local buffer passes
\* a length no greater than the number of characters snprintf stored in the
\* buffer, which is at most the buffer size minus one.
C24_WriteWithinBuffer ==
    (file.exists /\ file.by # "") =>
        \A writes \in {BufferWrites(file.content)} :
            \A k \in 1..Len(writes) :
                /\ WriteLength(writes[k]) <= snprintf(BufferSize, writes[k]).stored
                /\ WriteLength(writes[k]) <= BufferSize - 1
====
